---- MODULE Spec2Model ----
(***************************************************************************)
(* A model of Cubefile.Cubefile (src/Cubefile/Cubefile.py): the record     *)
(* fields, reset, read, read_iterator and the derived properties.          *)
(*                                                                         *)
(* Representation of the Python / numpy values:                            *)
(*   - a str token is a sequence of one-character strings over the         *)
(*     alphabet "0".."9", "-", "x";                                        *)
(*   - a line yielded by an iterator is [toks, nl]: its tokens, separated  *)
(*     by single blanks with no leading or trailing blank, and whether     *)
(*     the str ends with a line terminator;                                *)
(*   - a float is [m, e], standing for m * BOHR_TO_ANGSTROM^e, which is    *)
(*     exact and closed under the multiplications the code performs;       *)
(*   - a 1-d array is a sequence, the 3x3 array a sequence of rows, and    *)
(*     the voxel array is [shape, data] with data flattened in C order;    *)
(*   - an exception is [type, args]; None is held as a value of the kind   *)
(*     it stands in for: NoExc for an exception, NoName for a file name,   *)
(*     NoArg for an argument, <<>> for a return value (<<v>> returns v).   *)
(***************************************************************************)
EXTENDS Integers, Sequences, FiniteSets, TLC

(* ------------------------------ bounds --------------------------------- *)
MaxOps == 2
MaxAtomCount == 2
MaxCount == 2

(* ------------------------------ floats --------------------------------- *)
Float(n) == [m |-> n, e |-> 0]

BOHR_TO_ANGSTROM == [m |-> 1, e |-> 1]

Mul(a, b) ==
    IF a.m * b.m = 0 THEN Float(0) ELSE [m |-> a.m * b.m, e |-> a.e + b.e]

Abs(n) == IF n < 0 THEN -n ELSE n

(* --------------------------- str -> number ----------------------------- *)
Digits == <<"0", "1", "2", "3", "4", "5", "6", "7", "8", "9">>

DigitVal ==
    ("0" :> 0) @@ ("1" :> 1) @@ ("2" :> 2) @@ ("3" :> 3) @@ ("4" :> 4) @@
    ("5" :> 5) @@ ("6" :> 6) @@ ("7" :> 7) @@ ("8" :> 8) @@ ("9" :> 9)

IsDigit(c) == c \in DOMAIN DigitVal

Unsigned(tok) == IF tok # <<>> /\ tok[1] = "-" THEN Tail(tok) ELSE tok

\* whether int(tok) / float(tok) accepts the token (same tokens, for this alphabet)
IsNumeric(tok) ==
    LET digits == Unsigned(tok)
    IN  digits # <<>> /\ \A i \in 1..Len(digits) : IsDigit(digits[i])

RECURSIVE NatVal(_, _)
NatVal(ds, n) == IF ds = <<>> THEN n ELSE NatVal(Tail(ds), n * 10 + DigitVal[Head(ds)])

int(tok) == IF tok[1] = "-" THEN -NatVal(Tail(tok), 0) ELSE NatVal(tok, 0)

float(tok) == Float(int(tok))

\* Python slice s[a:b] of a 0-indexed list
Slice(s, a, b) ==
    IF a >= Len(s) THEN <<>>
    ELSE SubSeq(s, a + 1, IF b > Len(s) THEN Len(s) ELSE b)

(* ----------------------------- exceptions ------------------------------ *)
Exc(type, args) == [type |-> type, args |-> args]

NoExc == Exc("None", <<>>)

StopIteration == Exc("StopIteration", <<>>)
IndexError == Exc("IndexError", <<"list index out of range">>)
IntError == Exc("ValueError", <<"invalid literal for int()">>)
FloatError == Exc("ValueError", <<"could not convert string to float">>)
BroadcastError == Exc("ValueError", <<"could not broadcast">>)
NonSquareError == Exc("ValueError", <<"Non square voxel shape.">>)
ReshapeError == Exc("ValueError", <<"cannot reshape array">>)
VoxelCountError == Exc("ValueError", <<"Could not read the correct number of voxels">>)
ZeroSizeError == Exc("ValueError", <<"zero-size array to reduction operation maximum">>)

(* ------------------------------- numpy --------------------------------- *)
RECURSIVE Prod(_)
Prod(shape) == IF shape = <<>> THEN 1 ELSE Head(shape) * Prod(Tail(shape))

zeros(shape) == [shape |-> shape, data |-> [i \in 1..Prod(shape) |-> Float(0)]]

ones3 == <<Float(1), Float(1), Float(1)>>

\* whether a 1-d array of this length broadcasts against a length-3 array
Broadcasts3(v) == Len(v) \in {1, 3}

Broadcast3(v) == IF Len(v) = 1 THEN <<v[1], v[1], v[1]>> ELSE v

\* numpy.multiply of two length-3 arrays
multiply(a, b) == [k \in 1..3 |-> Mul(a[k], b[k])]

ISqrt(s) == CHOOSE r \in 0..s : r * r <= s /\ (r + 1) * (r + 1) > s

\* numpy.linalg.norm of one row whose entries are plain numbers
norm(row) ==
    Float(ISqrt(row[1].m * row[1].m + row[2].m * row[2].m + row[3].m * row[3].m))

(* ------------------------------ the record ----------------------------- *)
NoName == <<>>

reset ==
    [filename        |-> NoName,
     header          |-> <<>>,
     origin          |-> <<Float(0), Float(0), Float(0)>>,
     voxel_shape     |-> <<ones3, ones3, ones3>>,
     unit_conversion |-> ones3,
     scale           |-> ones3,
     atoms           |-> <<>>,
     voxels          |-> zeros(<<0>>)]

(* --------------------------- read_iterator ----------------------------- *)
(* The body of the try block is a chain of steps over a parser state       *)
(*   st = [self, exc, it, atom_count, voxel_count]                         *)
(* where it is what the iterator has still to yield and exc the exception  *)
(* raised so far (NoExc if none). A step does nothing once exc is set.      *)

Start(self, iterator) ==
    [self |-> self, exc |-> NoExc, it |-> iterator,
     atom_count |-> 0, voxel_count |-> <<0, 0, 0>>]

Raise(st, e) == [st EXCEPT !.exc = e]

\* Lines 1-2 = header
ReadHeader(st) ==
    IF st.exc # NoExc THEN st
    ELSE IF Len(st.it) < 2 THEN Raise([st EXCEPT !.it = <<>>], StopIteration)
    ELSE [st EXCEPT !.self.header = <<st.it[1], st.it[2]>>,
                    !.it = SubSeq(st.it, 3, Len(st.it))]

\* Line 3 = atom numbers and origin
ReadOrigin(st) ==
    IF st.exc # NoExc THEN st
    ELSE IF st.it = <<>> THEN Raise(st, StopIteration)
    ELSE LET split_line == Head(st.it).toks
             rest == [st EXCEPT !.it = Tail(st.it)]
             coords == Slice(split_line, 1, 4)
         IN  IF split_line = <<>> THEN Raise(rest, IndexError)
             ELSE IF ~IsNumeric(split_line[1]) THEN Raise(rest, IntError)
             ELSE IF \E k \in 1..Len(coords) : ~IsNumeric(coords[k])
                  THEN Raise([rest EXCEPT !.atom_count = int(split_line[1])], FloatError)
             ELSE [rest EXCEPT !.atom_count = int(split_line[1]),
                               !.self.origin = [k \in 1..Len(coords) |-> float(coords[k])]]

\* UnitOf with the comparison slipped to <=: a count of 0 is taken for Angstrom
UnitOfNonPositive(count) == IF count <= 0 THEN Float(1) ELSE BOHR_TO_ANGSTROM

\* Negative values means Angstroms, Positive means Bohr
UnitOf(count) == IF count < 0 THEN Float(1) ELSE BOHR_TO_ANGSTROM

\* Lines 4-6 = voxel count, dimensions and units: one pass of the loop, i in 1..3
ReadAxis(st, i) ==
    IF st.exc # NoExc THEN st
    ELSE IF st.it = <<>> THEN Raise(st, StopIteration)
    ELSE LET split_line == Head(st.it).toks
             rest == [st EXCEPT !.it = Tail(st.it)]
             coords == Slice(split_line, 1, 4)
         IN  IF split_line = <<>> THEN Raise(rest, IndexError)
             ELSE IF ~IsNumeric(split_line[1]) THEN Raise(rest, IntError)
             ELSE LET count == int(split_line[1])
                      counted == [rest EXCEPT !.voxel_count[i] = Abs(count),
                                              !.self.unit_conversion[i] = UnitOf(count)]
                  IN  IF \E k \in 1..Len(coords) : ~IsNumeric(coords[k])
                      THEN Raise(counted, FloatError)
                      ELSE IF ~Broadcasts3(coords) THEN Raise(counted, BroadcastError)
                      ELSE [counted EXCEPT !.self.voxel_shape[i] =
                               Broadcast3([k \in 1..Len(coords) |-> float(coords[k])])]

ReadAxes(st) == ReadAxis(ReadAxis(ReadAxis(st, 1), 2), 3)

\* NonSquare with a mask that keeps only the entries above the diagonal
NonSquareUpper(voxel_shape) ==
    \E i \in 1..3, j \in 1..3 :
        Mul(voxel_shape[i][j], Float(IF i < j THEN 1 ELSE 0)).m # 0

\* voxel_shape multiplied by 1 - identity has a non-zero entry
NonSquare(voxel_shape) ==
    \E i \in 1..3, j \in 1..3 :
        Mul(voxel_shape[i][j], Float(IF i = j THEN 0 ELSE 1)).m # 0

\* Check for non-square voxels
CheckSquare(st) ==
    IF st.exc # NoExc THEN st
    ELSE IF NonSquare(st.self.voxel_shape) THEN Raise(st, NonSquareError)
    ELSE st

\* Convert origin now we know about units
ConvertOrigin(st) ==
    IF st.exc # NoExc THEN st
    ELSE IF ~Broadcasts3(st.self.origin) THEN Raise(st, BroadcastError)
    ELSE [st EXCEPT !.self.origin =
             multiply(Broadcast3(st.self.origin), st.self.unit_conversion)]

\* Set up voxels and dimensions
SetUpVoxels(st) ==
    IF st.exc # NoExc THEN st
    ELSE [st EXCEPT !.self.voxels = zeros(st.voxel_count),
                    !.self.scale = multiply([i \in 1..3 |-> norm(st.self.voxel_shape[i])],
                                            st.self.unit_conversion)]

\* one pass of the atom loop
ReadAtom(st) ==
    IF st.exc # NoExc THEN st
    ELSE IF st.it = <<>> THEN Raise(st, StopIteration)
    ELSE LET split_line == Head(st.it).toks
             rest == [st EXCEPT !.it = Tail(st.it)]
             coords == Slice(split_line, 2, 5)
         IN  IF split_line = <<>> THEN Raise(rest, IndexError)
             ELSE IF ~IsNumeric(split_line[1]) THEN Raise(rest, IntError)
             ELSE IF Len(split_line) < 2 THEN Raise(rest, IndexError)
             ELSE IF ~IsNumeric(split_line[2]) THEN Raise(rest, FloatError)
             ELSE IF \E k \in 1..Len(coords) : ~IsNumeric(coords[k])
                  THEN Raise(rest, FloatError)
             ELSE IF ~Broadcasts3(coords) THEN Raise(rest, BroadcastError)
             ELSE [rest EXCEPT !.self.atoms = Append(@,
                      [element |-> int(split_line[1]),
                       charge  |-> float(split_line[2]),
                       xyz     |-> multiply(
                                     Broadcast3([k \in 1..Len(coords) |-> float(coords[k])]),
                                     st.self.unit_conversion)])]

\* Lines 7-n_atoms+7 = atom type, charge and position: range(n) passes
RECURSIVE ReadAtomsLoop(_, _)
ReadAtomsLoop(st, n) ==
    IF n <= 0 \/ st.exc # NoExc THEN st ELSE ReadAtomsLoop(ReadAtom(st), n - 1)

ReadAtoms(st) == ReadAtomsLoop(st, st.atom_count)

\* re.findall(r"\S+", "".join(lines)): acc holds the tokens found so far, open
\* says that the text so far ends inside the last of them
RECURSIVE FindAll(_, _, _)
FindAll(lines, acc, open) ==
    IF lines = <<>> THEN acc
    ELSE LET l == Head(lines) IN
         IF l.toks = <<>> THEN FindAll(Tail(lines), acc, open /\ ~l.nl)
         ELSE IF open /\ acc # <<>>
              THEN FindAll(Tail(lines),
                           SubSeq(acc, 1, Len(acc) - 1)
                             \o <<acc[Len(acc)] \o Head(l.toks)>> \o Tail(l.toks),
                           ~l.nl)
              ELSE FindAll(Tail(lines), acc \o l.toks, ~l.nl)

\* Collect remaining data
ReadVoxels(st) ==
    IF st.exc # NoExc THEN st
    ELSE LET found == FindAll(st.it, <<>>, FALSE)
             rest == [st EXCEPT !.it = <<>>]
         IN  IF \E k \in 1..Len(found) : ~IsNumeric(found[k]) THEN Raise(rest, FloatError)
             ELSE IF Len(found) # Prod(st.self.voxels.shape) THEN Raise(rest, ReshapeError)
             ELSE LET filled == [rest EXCEPT !.self.voxels =
                                    [shape |-> st.self.voxels.shape,
                                     data  |-> [k \in 1..Len(found) |-> float(found[k])]]]
                  IN  IF filled.self.voxels.shape # st.voxel_count
                      THEN Raise(filled, VoxelCountError)
                      ELSE filled

TryBlock(self, iterator) ==
    ReadVoxels(ReadAtoms(SetUpVoxels(ConvertOrigin(CheckSquare(
        ReadAxes(ReadOrigin(ReadHeader(Start(self, iterator)))))))))

\* OnException without the call of reset: the fields keep what the try block
\* had assigned when it raised
OnExceptionNoReset(st) ==
    [self |-> st.self, raised |-> Exc("ValueError", <<"Error reading file">> \o st.exc.args)]

\* except Exception as e: reset the object and reraise as a ValueError
OnException(st) ==
    [self |-> reset, raised |-> Exc("ValueError", <<"Error reading file">> \o st.exc.args)]

\* what the try statement leaves, given the state its try block ended in
TryExcept(st) ==
    IF st.exc = NoExc THEN [self |-> st.self, raised |-> NoExc] ELSE OnException(st)

\* the outcome of self.read_iterator(iterator): the record and what was raised
read_iterator(self, iterator) == TryExcept(TryBlock(self, iterator))

(* -------------------------------- read --------------------------------- *)
(* A data source is [kind, data, file]:                                    *)
(*   "path"  data is a str naming an existing file whose lines are file;   *)
(*   "text"  data is a str that names no file, held as its lines;          *)
(*   "iter"  data is a list of str;                                        *)
(*   "other" data is a value that is no path, no str and not iterable.     *)

isfile(data_source) == data_source.kind = "path"

isstr(data_source) == data_source.kind \in {"path", "text"}

iterable(data_source) == data_source.kind \in {"path", "text", "iter"}

\* str.splitlines(): the lines without their terminators
splitlines(text) == [k \in 1..Len(text) |-> [text[k] EXCEPT !.nl = FALSE]]

CouldNotRead == Exc("ValueError", <<"Could not read">>)

(* The outcome of self.read(data_source) is [self, raised, calls]: the       *)
(* record, what reached the caller, and what each call of read_iterator    *)
(* raised, in order.                                                       *)

\* "Iterator": done is the outcome of read_iterator(iter(data_source)); its
\* exception is passed over and "Could not read" raised instead
FromIterator(done, calls) ==
    IF done.raised = NoExc
    THEN [self |-> done.self, raised |-> NoExc, calls |-> Append(calls, NoExc)]
    ELSE [self |-> done.self, raised |-> CouldNotRead, calls |-> Append(calls, done.raised)]

\* "Newline delimited str": done is the outcome of the call, which is in no
\* try statement
FromText(done, calls) ==
    [self |-> done.self, raised |-> done.raised, calls |-> Append(calls, done.raised)]

\* read after its first try statement, with the record and the calls so far
NotFromPath(self, calls, data_source) ==
    IF isstr(data_source)
    THEN FromText(read_iterator(self, splitlines(data_source.data)), calls)
    ELSE IF iterable(data_source)
    THEN FromIterator(read_iterator(self, data_source.data), calls)
    ELSE [self |-> self, raised |-> CouldNotRead, calls |-> calls]

\* "Path to file": done is the outcome of read_iterator on the open file; its
\* exception is passed over and read goes on
FromPath(done, data_source) ==
    IF done.raised = NoExc
    THEN [self |-> done.self, raised |-> NoExc, calls |-> <<NoExc>>]
    ELSE NotFromPath(done.self, <<done.raised>>, data_source)

read(self, data_source) ==
    IF isfile(data_source)
    THEN FromPath(read_iterator([self EXCEPT !.filename = data_source.data],
                                data_source.file),
                  data_source)
    ELSE NotFromPath(self, <<>>, data_source)

(* -------------------------- derived properties ------------------------- *)
voxel_count(self) == [ret |-> <<self.voxels.shape>>, raised |-> NoExc]

voxel_total(self) == [ret |-> <<Len(self.voxels.data)>>, raised |-> NoExc]

atom_count(self) == [ret |-> <<Len(self.atoms)>>, raised |-> NoExc]

\* float(numpy.abs(self.voxels).max()); the voxel values are plain numbers
max_voxel_val(self) ==
    IF Len(self.voxels.data) = 0 THEN [ret |-> <<>>, raised |-> ZeroSizeError]
    ELSE [ret |-> <<Float(CHOOSE v \in {Abs(self.voxels.data[k].m) : k \in 1..Len(self.voxels.data)} :
                          \A k \in 1..Len(self.voxels.data) : Abs(self.voxels.data[k].m) <= v)>>,
          raised |-> NoExc]

__str__(self) ==
    [ret |-> IF self.filename # NoName
             THEN << <<"voxels", self.voxels.shape, "loaded from", self.filename>> >>
             ELSE << <<"voxels", self.voxels.shape>> >>,
     raised |-> NoExc]

Property(name, self) ==
    CASE name = "voxel_count"   -> voxel_count(self)
      [] name = "voxel_total"   -> voxel_total(self)
      [] name = "atom_count"    -> atom_count(self)
      [] name = "max_voxel_val" -> max_voxel_val(self)
      [] name = "__str__"       -> __str__(self)

PropertyNames == {"voxel_count", "voxel_total", "atom_count", "max_voxel_val", "__str__"}

(* ------------------------------- inputs -------------------------------- *)
(* Cube files are written from a description                               *)
(*   d = [ac, origin, counts, steps, atoms, payload, layout]               *)
(* of what they declare: the atom count, the origin, the three signed      *)
(* voxel counts, the three diagonal steps, the atoms and the payload       *)
(* values; layout says how the payload tokens are spread over lines.       *)

RECURSIVE StrNat(_)
StrNat(n) ==
    IF n < 10 THEN <<Digits[n + 1]>> ELSE StrNat(n \div 10) \o <<Digits[(n % 10) + 1]>>

\* the decimal literal of an integer
Str(n) == IF n < 0 THEN <<"-">> \o StrNat(-n) ELSE StrNat(n)

Line(ints) == [toks |-> [k \in 1..Len(ints) |-> Str(ints[k])], nl |-> TRUE]

Raw(toks) == [toks |-> toks, nl |-> TRUE]

HeaderLine == Raw(<< <<"x">> >>)

AxisLine(d, i) ==
    Line(<<d.counts[i]>> \o [j \in 1..3 |-> IF i = j THEN d.steps[i] ELSE 0])

AtomLine(a) == Line(<<a.element, a.charge>> \o a.xyz)

PayloadLines(d) ==
    IF d.layout = "one" THEN (IF d.payload = <<>> THEN <<>> ELSE <<Line(d.payload)>>)
    ELSE [k \in 1..Len(d.payload) |-> Line(<<d.payload[k]>>)]

FileOf(d) ==
    <<HeaderLine, HeaderLine, Line(<<d.ac>> \o d.origin),
      AxisLine(d, 1), AxisLine(d, 2), AxisLine(d, 3)>>
    \o [k \in 1..Len(d.atoms) |-> AtomLine(d.atoms[k])]
    \o PayloadLines(d)

Extent(d) == Abs(d.counts[1]) * Abs(d.counts[2]) * Abs(d.counts[3])

Atom(k) == [element |-> k, charge |-> 0, xyz |-> <<k, k + 1, k + 2>>]

Describe(ac, counts, len, layout) ==
    [ac |-> ac, origin |-> <<3, 4, 5>>, counts |-> counts, steps |-> <<1, 2, 3>>,
     atoms |-> [k \in 1..ac |-> Atom(k)], payload |-> [k \in 1..len |-> k],
     layout |-> layout]

\* every combination of units, with all atoms and a payload that fits
UnitTriples ==
    {<<a, b, c>> : a \in {-MaxCount, MaxCount}, b \in {-1, 1}, c \in {-1, 1}}
        \cup {<<0, 1, 1>>, <<1, 0, -1>>, <<-1, 1, 0>>}

\* a few grids, with a payload one short, exact and one over, in both layouts
PayloadTriples == {<<MaxCount, 1, 1>>, <<-1, 1, -1>>, <<0, -1, 1>>}

Descriptions ==
    {Describe(MaxAtomCount, counts, Abs(counts[1] * counts[2] * counts[3]), "one") :
        counts \in UnitTriples}
    \cup
    {Describe(ac, counts, len, layout) :
        ac \in {0, 1}, counts \in PayloadTriples,
        len \in 0..(MaxCount + 1), layout \in {"one", "each"}}

WellFormed ==
    {d \in Descriptions :
        /\ d.layout = "each" => Len(d.payload) >= 2
        /\ Len(d.payload) \in (Extent(d) - 1)..(Extent(d) + 1)}

\* lines that are wrong in some place of a cube file
AltLines ==
    {Raw(<<>>), Raw(<< <<"x">> >>), Line(<<1>>), Line(<<1, 0>>), Line(<<1, 5>>),
     Line(<<1, 0, 1>>), Line(<<1, 0, 1, 2>>), Line(<<1, 1, 1, 1>>), Line(<<1, 0, 0, 0>>)}

BaseFile == FileOf(Describe(1, <<MaxCount, -1, 1>>, MaxCount, "one"))

\* the second axis is not along y
SkewFile == [BaseFile EXCEPT ![5] = Line(<<-1, 1, 2, 0>>)]

Truncated == {SubSeq(BaseFile, 1, k) : k \in 0..(Len(BaseFile) - 1)}

Malformed ==
    {[BaseFile EXCEPT ![k] = alt] : k \in 3..Len(BaseFile), alt \in AltLines}
        \cup Truncated
        \cup {SkewFile, SubSeq(SkewFile, 1, 6), SubSeq(SkewFile, 1, 7),
              [SkewFile EXCEPT ![7] = Line(<<1, 0, 1>>)]}

NoArg == [kind |-> "none", data |-> <<>>, file |-> <<>>]

NoDecl == Describe(0, <<0, 0, 0>>, 0, "none")

Iterator(lines) == [kind |-> "iterator", data |-> lines, file |-> <<>>]

\* what read_iterator may be handed directly: the lines of a file, or the
\* lines of a text after splitlines
Iterators ==
    {[arg |-> Iterator(FileOf(d)), decl |-> d] : d \in WellFormed}
        \cup {[arg |-> Iterator(splitlines(FileOf(d))), decl |-> d] :
                 d \in {w \in WellFormed : w.layout = "each"}}
        \cup {[arg |-> Iterator(lines), decl |-> NoDecl] : lines \in Malformed}

PathName == <<Raw(<< <<"x">> >>)>>

Flavours(lines) ==
    {[kind |-> "path", data |-> splitlines(PathName), file |-> lines],
     [kind |-> "text", data |-> lines, file |-> <<>>],
     [kind |-> "iter", data |-> lines, file |-> <<>>],
     [kind |-> "iter", data |-> splitlines(lines), file |-> <<>>]}

ReadDescriptions ==
    {d \in WellFormed : d.ac = 1 /\ d.counts[1] # 0 /\ Len(d.payload) = 2}

ReadMalformed ==
    {SubSeq(BaseFile, 1, 1), SubSeq(BaseFile, 1, 6), SkewFile,
     [BaseFile EXCEPT ![3] = Line(<<1, 5>>)]}

DataSources ==
    UNION {{[arg |-> src, decl |-> d] : src \in Flavours(FileOf(d))} : d \in ReadDescriptions}
        \cup UNION {{[arg |-> src, decl |-> NoDecl] : src \in Flavours(lines)} :
                       lines \in ReadMalformed}
        \cup {[arg |-> [kind |-> "other", data |-> <<>>, file |-> <<>>], decl |-> NoDecl]}

(* ----------------------------- the program ----------------------------- *)
VARIABLES
    filename, header, origin, voxel_shape, unit_conversion, scale, atoms, voxels,
    op,         \* the last operation called on the record
    arg,        \* its data source or iterator, NoArg if it takes none
    decl,       \* what the file of that source declares, NoDecl if it was not
                \* written from a description
    ret,        \* what the operation returned
    raised,     \* the exception that reached its caller, NoExc if none
    calls,      \* what each call of read_iterator in it raised
    parsed,     \* the record is the outcome of a successful parse
    dirty,      \* the record differed from reset when the operation began
    nops        \* the number of operations so far

fields == <<filename, header, origin, voxel_shape, unit_conversion, scale, atoms, voxels>>

vars == <<fields, op, arg, decl, ret, raised, calls, parsed, dirty, nops>>

Self ==
    [filename |-> filename, header |-> header, origin |-> origin,
     voxel_shape |-> voxel_shape, unit_conversion |-> unit_conversion,
     scale |-> scale, atoms |-> atoms, voxels |-> voxels]

Assign(self) ==
    /\ filename' = self.filename
    /\ header' = self.header
    /\ origin' = self.origin
    /\ voxel_shape' = self.voxel_shape
    /\ unit_conversion' = self.unit_conversion
    /\ scale' = self.scale
    /\ atoms' = self.atoms
    /\ voxels' = self.voxels

\* Cubefile(): __init__ without a data source
Init ==
    /\ filename = reset.filename
    /\ header = reset.header
    /\ origin = reset.origin
    /\ voxel_shape = reset.voxel_shape
    /\ unit_conversion = reset.unit_conversion
    /\ scale = reset.scale
    /\ atoms = reset.atoms
    /\ voxels = reset.voxels
    /\ op = "__init__"
    /\ arg = NoArg
    /\ decl = NoDecl
    /\ ret = <<>>
    /\ raised = NoExc
    /\ calls = <<>>
    /\ parsed = FALSE
    /\ dirty = FALSE
    /\ nops = 0

Called(name, a, d) ==
    /\ nops < MaxOps
    /\ nops' = nops + 1
    /\ op' = name
    /\ arg' = a
    /\ decl' = d
    /\ dirty' = (Self # reset)

\* the operation returns: out is [self, ret, raised, calls, parsed]
Returned(out) ==
    /\ Assign(out.self)
    /\ ret' = out.ret
    /\ raised' = out.raised
    /\ calls' = out.calls
    /\ parsed' = out.parsed

ReadReturn(out) ==
    [self |-> out.self, ret |-> <<>>, raised |-> out.raised, calls |-> out.calls,
     parsed |-> IF out.calls = <<>> THEN parsed ELSE out.raised = NoExc]

Read(in) ==
    /\ Called("read", in.arg, in.decl)
    /\ Returned(ReadReturn(read(Self, in.arg)))

ReadIteratorReturn(out) ==
    [self |-> out.self, ret |-> <<>>, raised |-> out.raised, calls |-> <<out.raised>>,
     parsed |-> out.raised = NoExc]

ReadIterator(in) ==
    /\ Called("read_iterator", in.arg, in.decl)
    /\ Returned(ReadIteratorReturn(read_iterator(Self, in.arg.data)))

Reset ==
    /\ Called("reset", NoArg, NoDecl)
    /\ Returned([self |-> reset, ret |-> <<>>, raised |-> NoExc, calls |-> <<>>,
                 parsed |-> FALSE])

GetReturn(self, out) ==
    [self |-> self, ret |-> out.ret, raised |-> out.raised, calls |-> <<>>,
     parsed |-> parsed]

Get(name) ==
    /\ Called(name, NoArg, NoDecl)
    /\ Returned(GetReturn(Self, Property(name, Self)))

Next ==
    \/ \E in \in DataSources : Read(in)
    \/ \E in \in Iterators : ReadIterator(in)
    \/ Reset
    \/ \E name \in PropertyNames : Get(name)

Spec == Init /\ [][Next]_vars

(* ------------------------------ the claims ----------------------------- *)
Parses == {"read", "read_iterator"}

\* the lines handed to the first call of read_iterator in the last operation
Stream ==
    CASE arg.kind = "path" -> arg.file
      [] arg.kind = "text" -> splitlines(arg.data)
      [] arg.kind \in {"iter", "iterator"} -> arg.data
      [] OTHER -> <<>>

\* read_iterator was called and its last call raised
ParseFailed == op \in Parses /\ calls # <<>> /\ calls[Len(calls)] # NoExc

ParseError(e) == Exc("ValueError", <<"Error reading file">> \o e.args)

\* the record a description declares, given the units of its axes
DeclaredOrigin(d, units) == [k \in 1..3 |-> Mul(Float(d.origin[k]), units[k])]

DeclaredAtoms(d, units) ==
    [i \in 1..Len(d.atoms) |->
        [element |-> d.atoms[i].element,
         charge  |-> Float(d.atoms[i].charge),
         xyz     |-> [k \in 1..3 |-> Mul(Float(d.atoms[i].xyz[k]), units[k])]]]

DeclaredShape(d) == [i \in 1..3 |-> Abs(d.counts[i])]

\* C1: whenever read_iterator fails, at whatever step and whatever the record
\* held before, an error reaches the caller and every field of the record has
\* the value reset assigns.
C1_FailureResets == ParseFailed => (raised # NoExc /\ Self = reset)

\* a populated record is handed a file whose payload is one token off: the
\* failure comes at the last step, after every field was assigned
C1_Witness ==
    /\ op = "read_iterator"
    /\ dirty
    /\ raised = ParseError(ReshapeError)
    /\ Self = reset

\* C2: a read that succeeds leaves the record as the same read into a freshly
\* constructed Cubefile would, whatever was read into it before.
C2_RereadDiscards ==
    (op = "read" /\ raised = NoExc) => Self = read(reset, arg).self

\* C3: for a file written from a description (valid header, origin, axis and
\* atom lines), the parse succeeds exactly when the payload holds as many
\* tokens as the grid has voxels; then voxels has the declared shape, and
\* otherwise voxels is the zero-sized default.
C3_ExactPayload ==
    (op \in Parses /\ decl # NoDecl) =>
        /\ (raised = NoExc) <=> (Len(decl.payload) = Extent(decl))
        /\ raised = NoExc => voxels.shape = DeclaredShape(decl)
        /\ raised # NoExc => voxels = reset.voxels

\* the signed voxel count axis line i declares, in a stream that parsed
DeclaredCount(i) ==
    IF decl # NoDecl THEN decl.counts[i] ELSE int(Stream[3 + i].toks[1])

\* C4: after every successful parse, on each axis a negative declared count
\* gives unit_conversion 1.0 and any other count the Bohr constant, the extent
\* of the grid is the absolute value of the count, and unit_conversion never
\* holds any other value.
C4_UnitsBySign ==
    /\ \A i \in 1..3 : unit_conversion[i] \in {Float(1), BOHR_TO_ANGSTROM}
    /\ (op \in Parses /\ raised = NoExc) =>
          \A i \in 1..3 :
             /\ DeclaredCount(i) < 0 =>
                   unit_conversion[i] = Float(1) /\ voxels.shape[i] = -DeclaredCount(i)
             /\ DeclaredCount(i) >= 0 =>
                   unit_conversion[i] = BOHR_TO_ANGSTROM /\ voxels.shape[i] = DeclaredCount(i)

\* a parse of a file with an Angstrom axis, a Bohr axis and an axis of count 0
C4_Witness ==
    /\ op \in Parses
    /\ raised = NoExc
    /\ decl.counts = <<-1, 1, 0>>
    /\ unit_conversion = <<Float(1), BOHR_TO_ANGSTROM, BOHR_TO_ANGSTROM>>
    /\ voxels.shape = <<1, 1, 0>>

\* axis line i of the stream gives a non-zero entry off the diagonal
OffDiagonal(lines) ==
    \E i \in 1..3, j \in 1..3 :
        /\ i # j
        /\ Len(lines) >= 3 + i
        /\ Len(lines[3 + i].toks) >= 1 + j
        /\ IsNumeric(lines[3 + i].toks[1 + j])
        /\ int(lines[3 + i].toks[1 + j]) # 0

\* C5: a stream whose axis lines give a non-zero off-diagonal entry fails and
\* leaves the record reset, whatever its other lines hold, and a record that
\* parsed has a diagonal voxel_shape.
C5_NonDiagonalFails ==
    /\ (op \in Parses /\ calls # <<>> /\ OffDiagonal(Stream)) =>
          (raised # NoExc /\ Self = reset)
    /\ (op \in Parses /\ raised = NoExc) =>
          \A i \in 1..3, j \in 1..3 : i # j => voxel_shape[i][j] = Float(0)

\* a file that is valid but for its second axis is read into a populated record
C5_Witness ==
    /\ op = "read_iterator"
    /\ Stream = SkewFile
    /\ dirty
    /\ raised = ParseError(NonSquareError)

\* a positional line of the stream has too few tokens
ShortLine(lines) ==
    \/ Len(lines) >= 3 /\ Len(lines[3].toks) < 4
    \/ \E k \in 4..6 : Len(lines) >= k /\ Len(lines[k].toks) < 4
    \/ /\ Len(lines) >= 3
       /\ lines[3].toks # <<>>
       /\ IsNumeric(lines[3].toks[1])
       /\ \E k \in 7..(6 + int(lines[3].toks[1])) :
             Len(lines) >= k /\ Len(lines[k].toks) < 5

\* C6: a stream with too few tokens on its origin line, an axis line or an
\* atom line fails and leaves the record reset.
C6_ShortLineFails ==
    (op \in Parses /\ calls # <<>> /\ ShortLine(Stream)) =>
        (raised # NoExc /\ Self = reset)

\* the lines of the last operation's file with all payload tokens on one line,
\* yielded as the last operation's source yields lines
OneLine ==
    LET lines == FileOf([decl EXCEPT !.layout = "one"])
    IN  IF \A k \in 1..Len(Stream) : ~Stream[k].nl THEN splitlines(lines) ELSE lines

\* C7: the outcome of a parse and the voxel grid do not depend on how the
\* payload tokens are spread over lines.
C7_LineBreaksMeaningless ==
    (op \in Parses /\ decl # NoDecl) =>
        /\ (raised = NoExc) <=> (read_iterator(reset, OneLine).raised = NoExc)
        /\ voxels = read_iterator(reset, OneLine).self.voxels

\* C8: when read resolves its source and the content fails to parse, the
\* caller gets the parse failure read_iterator raised for that content.
C8_ParseFailureSurfaces ==
    (op = "read" /\ calls # <<>> /\ calls[1] # NoExc) => raised = calls[1]

\* C9: on a record a parse produced, every derived property returns a value
\* and raises nothing.
C9_PropertiesTotal ==
    (op \in PropertyNames /\ parsed) => (raised = NoExc /\ ret # <<>>)

\* C10: after a successful parse the origin and every atom's coordinates are
\* the declared ones multiplied once by unit_conversion, with the atoms in
\* file order.
C10_ConvertedOnce ==
    (op \in Parses /\ raised = NoExc /\ decl # NoDecl) =>
        /\ origin = DeclaredOrigin(decl, unit_conversion)
        /\ atoms = DeclaredAtoms(decl, unit_conversion)

====
